---- MODULE Spec2Model ----
(***************************************************************************)
(* Model of src/src/main.rs: an equal-principal amortization schedule      *)
(* (Loan, PaymentSchedule) with generate_schedule, adjust_rate,            *)
(* make_early_payment and total_interest_paid.                             *)
(*                                                                         *)
(* Units.  Decimal money is an integer number of mills (0.001), so that    *)
(* round_dp(2) is a real rounding to a multiple of 10 mills and inputs     *)
(* with a third decimal exist.  Rates are integers in hundredths of a      *)
(* percent (4.2 is 420).  u32 values are naturals; a subtraction below     *)
(* zero either panics (overflow checks on, the default `cargo build`) or   *)
(* wraps (overflow checks off, `--release`).                               *)
(***************************************************************************)
EXTENDS Integers, Sequences, FiniteSets

\* ------------------------------------------------------------------ bounds
MaxPeriods == 3     \* largest months - done_months the inputs draw
MaxDone    == 1     \* largest done_months the inputs draw
MaxCalls   == 2     \* adjust_rate / make_early_payment calls per run

\* ------------------------------------------------------------------ inputs
\* principal, in mills: zero, a fraction of a cent, amounts whose division by
\* the period count is exact, rounds up, rounds down or is a midpoint, and one
\* with a third decimal
Principals == {0, 6, 200000, 201440, 300000, 300010, 400000, 600005}
\* annual rates in hundredths of a percent: main's 4.2 and 3.55
Rates      == {420, 355}
\* start dates: main's, and two whose day the next month does not have
StartDates == { [y |-> 2024, m |-> 10, d |-> 19],
                [y |-> 2023, m |-> 12, d |-> 30],
                [y |-> 2024, m |-> 1,  d |-> 31] }
\* extra payments that do not depend on the schedule, in mills
FixedExtras == {0, 4, 10, 100000}

VARIABLES loan, schedule, pc, last, calls
vars == <<loan, schedule, pc, last, calls>>

\* Option<Decimal> / Option<NaiveDate>
None    == << >>
Some(x) == << x >>

\* ------------------------------------------------------- Decimal arithmetic
\* round-half-even of num / den for num >= 0, den > 0
RoundHalfEven(num, den) ==
    LET q == num \div den
        r == num % den
    IN  IF 2 * r < den THEN q
        ELSE IF 2 * r > den THEN q + 1
        ELSE IF q % 2 = 0 THEN q ELSE q + 1

\* Decimal::round_dp(2) of a value in mills (banker's rounding, sign kept)
round_dp(x) ==
    IF x < 0 THEN 0 - 10 * RoundHalfEven(0 - x, 10)
             ELSE 10 * RoundHalfEven(x, 10)

\* (a / Decimal::from(n)).round_dp(2) for a >= 0 in mills
div_round_dp(a, n) == 10 * RoundHalfEven(a, 10 * n)

\* (remaining_principal * (rate / 12 / 100)).round_dp(2).  rate / 12 / 100
\* is a 28-digit Decimal: exact when rate/12 terminates, otherwise the
\* repeating quotient is rounded at the last digit (...333 down, ...667 up),
\* which decides the one case the error can matter, an exact midpoint.
interest_of(remaining_principal, rate) ==
    LET den == 1200000
        \* remaining_principal * rate = (hi * rate) * den + low, kept in 32 bits
        hi  == remaining_principal \div den
        low == (remaining_principal % den) * rate
        q   == hi * rate + (low \div den)
        r   == low % den
    IN  IF 2 * r < den THEN 10 * q
        ELSE IF 2 * r > den THEN 10 * (q + 1)
        ELSE IF rate % 3 = 0 THEN (IF q % 2 = 0 THEN 10 * q ELSE 10 * (q + 1))
        ELSE IF rate % 3 = 1 THEN 10 * q ELSE 10 * (q + 1)

\* --------------------------------------------------------------- chrono
IsLeap(y) == (y % 4 = 0 /\ y % 100 # 0) \/ y % 400 = 0
DaysInMonth(y, m) ==
    IF m = 2 THEN (IF IsLeap(y) THEN 29 ELSE 28)
    ELSE IF m \in {4, 6, 9, 11} THEN 30 ELSE 31

\* NaiveDate::with_month / with_year: None when the date does not exist
with_month(date, m) ==
    IF date.d <= DaysInMonth(date.y, m) THEN Some([date EXCEPT !.m = m]) ELSE None
with_year(date, y) ==
    IF date.d <= DaysInMonth(y, date.m) THEN Some([date EXCEPT !.y = y]) ELSE None

\* advance_date without the year carry at the December-to-January step
advance_date_same_year(current_date) ==
    with_month(current_date, ((current_date.m - 1 + 1) % 12) + 1)

\* the date advance at the end of each iteration of generate_schedule
advance_date(current_date) ==
    LET month0 == current_date.m - 1
        wm     == with_month(current_date, ((month0 + 1) % 12) + 1)
    IN  IF wm = None THEN None
        ELSE with_year(wm[1], current_date.y + ((month0 + 1) \div 12))

\* ------------------------------------------------------------- Loan::new
\* the Loan built by Loan::new when months > done_months
new(principal, annual_rate, done_months, months, start_date) ==
    [ principal |-> principal,
      annual_rate |-> annual_rate,
      done_months |-> done_months,
      months |-> months,
      start_date |-> start_date,
      monthly_principal_payment |-> div_round_dp(principal, months - done_months) ]

\* ------------------------------------------------ Loan::generate_schedule
\* generated_record storing the balance after the period's payment
generated_record_balance_after(self, period, remaining_principal, current_date) ==
    LET interest == interest_of(remaining_principal, self.annual_rate)
        total_payment == round_dp(self.monthly_principal_payment + interest)
        monthly_principal_payment ==
            IF remaining_principal < self.monthly_principal_payment
              THEN remaining_principal
              ELSE self.monthly_principal_payment
    IN  [ period |-> period + self.done_months,
          interest |-> interest,
          principal_payment |-> monthly_principal_payment,
          remaining_principal |-> remaining_principal - monthly_principal_payment,
          total_payment |-> total_payment,
          interest_rate |-> self.annual_rate,
          payment_date |-> current_date,
          early_payment |-> None ]

\* one PaymentSchedule pushed by the loop body
generated_record(self, period, remaining_principal, current_date) ==
    LET interest == interest_of(remaining_principal, self.annual_rate)
        total_payment == round_dp(self.monthly_principal_payment + interest)
        monthly_principal_payment ==
            IF remaining_principal < self.monthly_principal_payment
              THEN remaining_principal
              ELSE self.monthly_principal_payment
    IN  [ period |-> period + self.done_months,
          interest |-> interest,
          principal_payment |-> monthly_principal_payment,
          remaining_principal |-> remaining_principal,
          total_payment |-> total_payment,
          interest_rate |-> self.annual_rate,
          payment_date |-> current_date,
          early_payment |-> None ]

\* one iteration of `for period in 1..=months` on the loop's variables; once
\* the date advance has hit expect("Failed to calculate date") nothing runs
generate_step(self, st, period) ==
    IF st.failed THEN st
    ELSE LET rec  == generated_record(self, period, st.remaining_principal,
                                      st.current_date)
             next == advance_date(st.current_date)
         IN  IF next = None THEN [st EXCEPT !.failed = TRUE]
             ELSE [ remaining_principal |-> st.remaining_principal - rec.principal_payment,
                    current_date |-> next[1],
                    schedule |-> Append(st.schedule, rec),
                    failed |-> FALSE ]

\* the iterations lo..hi in order (halved, the first half evaluated before
\* the second, so that 231 periods are not 231 nested evaluations)
RECURSIVE generate_loop(_, _, _, _)
generate_loop(self, st, lo, hi) ==
    IF lo > hi THEN st
    ELSE IF lo = hi THEN generate_step(self, st, lo)
    ELSE LET mid  == (lo + hi) \div 2
             left == generate_loop(self, st, lo, mid)
         IN  IF left.failed THEN left
             ELSE generate_loop(self, left, mid + 1, hi)

\* Some(schedule), or None when the loop panicked
generate_schedule(self) ==
    LET end == generate_loop(self,
                   [ remaining_principal |-> self.principal,
                     current_date |-> self.start_date,
                     schedule |-> << >>,
                     failed |-> FALSE ],
                   1, self.months - self.done_months)
    IN  IF end.failed THEN None ELSE Some(end.schedule)

\* ------------------------------------------------------ Loan::adjust_rate
\* adjusted_record changing the rate without recomputing the interest
adjusted_record_stale_interest(payment, new_rate) ==
    [payment EXCEPT !.interest_rate = new_rate]

\* the loop body applied to one record
adjusted_record(payment, new_rate) ==
    LET interest == interest_of(payment.remaining_principal, new_rate)
    IN  [payment EXCEPT !.interest_rate = new_rate,
                        !.interest = interest,
                        !.total_payment = payment.principal_payment + interest]

\* adjust_from skipping one record too few
adjust_from_one_early(sched, n, new_rate) ==
    [i \in 1..Len(sched) |-> IF i >= n THEN adjusted_record(sched[i], new_rate)
                                        ELSE sched[i]]

\* schedule.iter_mut().skip(n): records at 0-based index >= n are rewritten
adjust_from(sched, n, new_rate) ==
    [i \in 1..Len(sched) |-> IF i - 1 >= n THEN adjusted_record(sched[i], new_rate)
                                            ELSE sched[i]]

\* ----------------------------------------------- Loan::make_early_payment
\* balance_after saturating at zero instead of going negative
balance_after_saturating(sched, idx, extra_payment) ==
    IF sched[idx + 1].remaining_principal - extra_payment < 0 THEN 0
    ELSE round_dp(sched[idx + 1].remaining_principal - extra_payment)

\* the balance left at the target record once the extra payment is taken off
balance_after(sched, idx, extra_payment) ==
    round_dp(sched[idx + 1].remaining_principal - extra_payment)

\* the balance check left out
is_rejected_never(remaining_principal) == FALSE

\* the balance check: the call returns without touching anything
is_rejected(remaining_principal) == remaining_principal < 0

\* schedule[idx].early_payment = Some(extra_payment)
mark_early_payment(sched, idx, extra_payment) ==
    [sched EXCEPT ![idx + 1].early_payment = Some(extra_payment)]

\* body of the shorten-term loop: the record rewritten from the running
\* balance, capped by the principal_payment the record already holds
shorten_record(payment, remaining_principal) ==
    LET interest == interest_of(remaining_principal, payment.interest_rate)
        principal_payment ==
            IF remaining_principal < payment.principal_payment
              THEN remaining_principal
              ELSE payment.principal_payment
    IN  [payment EXCEPT !.remaining_principal = remaining_principal,
                        !.principal_payment = principal_payment,
                        !.interest = interest,
                        !.total_payment = round_dp(principal_payment + interest)]

\* shorten_step breaking out of the loop without schedule.truncate(idx)
shorten_step_no_truncate(st, i) ==
    IF st.stopped THEN st
    ELSE LET rewritten == shorten_record(st.schedule[i], st.remaining_principal)
             s2   == [st.schedule EXCEPT ![i] = rewritten]
             rest == st.remaining_principal - rewritten.principal_payment
         IN  [schedule |-> s2, remaining_principal |-> rest, stopped |-> rest = 0]

\* one iteration of the shorten-term loop at 1-based position i; after the
\* truncate-and-break nothing runs
shorten_step(st, i) ==
    IF st.stopped THEN st
    ELSE LET rewritten == shorten_record(st.schedule[i], st.remaining_principal)
             s2   == [st.schedule EXCEPT ![i] = rewritten]
             rest == st.remaining_principal - rewritten.principal_payment
         IN  IF rest = 0
               THEN [schedule |-> SubSeq(s2, 1, i), remaining_principal |-> rest,
                     stopped |-> TRUE]
               ELSE [schedule |-> s2, remaining_principal |-> rest,
                     stopped |-> FALSE]

RECURSIVE shorten_loop(_, _, _)
shorten_loop(st, lo, hi) ==
    IF lo > hi THEN st
    ELSE IF lo = hi THEN shorten_step(st, lo)
    ELSE LET mid  == (lo + hi) \div 2
             left == shorten_loop(st, lo, mid)
         IN  IF left.stopped THEN left
             ELSE shorten_loop(left, mid + 1, hi)

\* the shorten-term walk from 1-based position i with running balance
\* remaining_principal; truncates after the record that brings it to zero
shorten_walk(sched, i, remaining_principal) ==
    shorten_loop([schedule |-> sched, remaining_principal |-> remaining_principal,
                  stopped |-> FALSE], i, Len(sched)).schedule

\* the flat installment a reduce-installment payment at 0-based idx sets
reduced_installment(self, sched, idx, remaining_principal) ==
    LET remaining_period == self.months - sched[idx + 1].period + 1
    IN  div_round_dp(remaining_principal, remaining_period)

\* body of the reduce-installment loop: the record rewritten from the
\* running balance and the Loan's new flat installment, capped
reduce_record(payment, remaining_principal, monthly_principal_payment) ==
    LET interest == interest_of(remaining_principal, payment.interest_rate)
        principal_payment ==
            IF remaining_principal < monthly_principal_payment
              THEN remaining_principal
              ELSE monthly_principal_payment
    IN  [payment EXCEPT !.remaining_principal = remaining_principal,
                        !.principal_payment = principal_payment,
                        !.interest = interest,
                        !.total_payment = round_dp(principal_payment + interest)]

\* one iteration of the reduce-installment loop at 1-based position i
reduce_step(st, i, monthly_principal_payment) ==
    LET rewritten == reduce_record(st.schedule[i], st.remaining_principal,
                                   monthly_principal_payment)
    IN  [ schedule |-> [st.schedule EXCEPT ![i] = rewritten],
          remaining_principal |-> st.remaining_principal - rewritten.principal_payment ]

\* the iterations lo..hi in order; the test on the first half's result always
\* holds (the loop never changes the length) and only has it evaluated first
RECURSIVE reduce_loop(_, _, _, _)
reduce_loop(st, lo, hi, monthly_principal_payment) ==
    IF lo > hi THEN st
    ELSE IF lo = hi THEN reduce_step(st, lo, monthly_principal_payment)
    ELSE LET mid  == (lo + hi) \div 2
             left == reduce_loop(st, lo, mid, monthly_principal_payment)
         IN  IF Len(left.schedule) = Len(st.schedule)
               THEN reduce_loop(left, mid + 1, hi, monthly_principal_payment)
               ELSE left

\* reduce_walk over the slice that starts one record before the target
reduce_walk_one_early(sched, i, remaining_principal, monthly_principal_payment) ==
    reduce_loop([schedule |-> sched, remaining_principal |-> remaining_principal],
                IF i > 1 THEN i - 1 ELSE i, Len(sched),
                monthly_principal_payment).schedule

\* the reduce-installment walk: every record from i to the end, no truncation
reduce_walk(sched, i, remaining_principal, monthly_principal_payment) ==
    reduce_loop([schedule |-> sched, remaining_principal |-> remaining_principal],
                i, Len(sched), monthly_principal_payment).schedule

\* --------------------------------------------- Loan::total_interest_paid
RECURSIVE sum_interest(_, _)
sum_interest(sched, i) ==
    IF i > Len(sched) THEN 0 ELSE sched[i].interest + sum_interest(sched, i + 1)
total_interest_paid(sched) == sum_interest(sched, 1)

\* ------------------------------------------------------------ u32 arithmetic
\* a - b on u32 with overflow checks off, for a < b: the value 2^32 - (b - a).
\* It is only ever compared with a schedule length, and is written here as
\* 2^31 - (b - a) because the checker's integers end at 2^31 - 1.
wrapping_sub(a, b) == IF a >= b THEN a - b ELSE (2147483647 - (b - a)) + 1

\* ------------------------------------------------------------ the program
NoCall == [op |-> "none", outcome |-> "none"]

Init ==
    /\ loan = None
    /\ schedule = << >>
    /\ pc = "start"
    /\ last = NoCall
    /\ calls = 0

\* Loan::new(principal, annual_rate, done_months, months, start_date) with
\* the principal drawn from `principals`; Decimal division by zero panics
LoanNew(principals) ==
    \E principal \in principals, annual_rate \in Rates,
       done_months \in 0..MaxDone, count \in 0..MaxPeriods,
       start_date \in StartDates :
        /\ pc = "start"
        /\ IF count = 0
             THEN /\ pc' = "panicked"
                  /\ last' = [op |-> "new", outcome |-> "panic",
                              done_months |-> done_months,
                              months |-> done_months + count]
                  /\ UNCHANGED <<loan, schedule, calls>>
             ELSE /\ pc' = "constructed"
                  /\ loan' = new(principal, annual_rate, done_months,
                                 done_months + count, start_date)
                  /\ last' = [op |-> "new", outcome |-> "ok",
                              done_months |-> done_months,
                              months |-> done_months + count]
                  /\ UNCHANGED <<schedule, calls>>

\* let mut schedule = loan.generate_schedule();
GenerateSchedule ==
    /\ pc = "constructed"
    /\ LET result == generate_schedule(loan)
       IN  IF result = None
             THEN /\ pc' = "panicked"
                  /\ last' = [op |-> "generate_schedule", outcome |-> "panic"]
                  /\ UNCHANGED <<loan, schedule, calls>>
             ELSE /\ pc' = "generated"
                  /\ schedule' = result[1]
                  /\ last' = [op |-> "generate_schedule", outcome |-> "ok"]
                  /\ UNCHANGED <<loan, calls>>

\* loan.adjust_rate(new_rate, from_period, &mut schedule)
AdjustRate(new_rate, from_period) ==
    /\ pc = "generated"
    /\ calls < MaxCalls
    /\ calls' = calls + 1
    /\ loan' = [loan EXCEPT !.annual_rate = new_rate]
    /\ \/ /\ from_period = 0          \* from_period - 1 with overflow checks on
          /\ pc' = "panicked"
          /\ last' = [op |-> "adjust_rate", outcome |-> "panic",
                      new_rate |-> new_rate, from_period |-> from_period]
          /\ UNCHANGED schedule
       \/ /\ pc' = pc
          /\ schedule' = adjust_from(schedule, wrapping_sub(from_period, 1), new_rate)
          /\ last' = [op |-> "adjust_rate", outcome |-> "ok",
                      new_rate |-> new_rate, from_period |-> from_period]

\* loan.make_early_payment(extra_payment, period, shorten_term, &mut schedule)
MakeEarlyPayment(extra_payment, period, shorten_term) ==
    LET call(outcome) == [op |-> "make_early_payment", outcome |-> outcome,
                          extra_payment |-> extra_payment, period |-> period,
                          shorten_term |-> shorten_term]
        idx == wrapping_sub(period, loan.done_months + 1)
    IN
    /\ pc = "generated"
    /\ calls < MaxCalls
    /\ calls' = calls + 1
    /\ \/ /\ period < loan.done_months + 1   \* overflow checks on
          /\ pc' = "panicked"
          /\ last' = call("panic")
          /\ UNCHANGED <<loan, schedule>>
       \/ /\ idx >= Len(schedule)
          /\ last' = call("out_of_range")
          /\ UNCHANGED <<loan, schedule, pc>>
       \/ /\ idx < Len(schedule)
          /\ LET remaining_principal == balance_after(schedule, idx, extra_payment)
                 marked == mark_early_payment(schedule, idx, extra_payment)
             IN  IF is_rejected(remaining_principal)
                   THEN /\ last' = call("rejected")
                        /\ UNCHANGED <<loan, schedule, pc>>
                   ELSE /\ last' = call("accepted")
                        /\ pc' = pc
                        /\ IF shorten_term
                             THEN /\ schedule' = shorten_walk(marked, idx + 1, remaining_principal)
                                  /\ loan' = loan
                             ELSE LET installment == reduced_installment(loan, marked, idx, remaining_principal)
                                  IN  /\ loan' = [loan EXCEPT !.monthly_principal_payment = installment]
                                      /\ schedule' = reduce_walk(marked, idx + 1, remaining_principal, installment)

\* the extra payments tried at a period: the fixed ones and, at a period of
\* the schedule, the whole balance of the target record, a fraction of a
\* cent more than it and one cent more than it
Extras(fixed, sub_cent, period) ==
    LET i == period - loan.done_months
    IN  fixed \cup
        (IF i \in 1..Len(schedule)
           THEN {schedule[i].remaining_principal + d : d \in {0, 10} \cup sub_cent}
           ELSE {})

Periods == 0..(MaxDone + MaxPeriods + 1)

\* the calls a driver makes on a generated schedule
AdjustRates ==
    \E new_rate \in Rates, from_period \in 0..(MaxPeriods + 1) :
        AdjustRate(new_rate, from_period)

EarlyPayments(fixed, sub_cent) ==
    /\ pc = "generated"
    /\ \E period \in Periods, shorten_term \in BOOLEAN :
          \E extra_payment \in Extras(fixed, sub_cent, period) :
              MakeEarlyPayment(extra_payment, period, shorten_term)

Next ==
    \/ LoanNew(Principals)
    \/ GenerateSchedule
    \/ AdjustRates
    \/ EarlyPayments(FixedExtras, {4})

Spec == Init /\ [][Next]_vars

\* the same program driven with whole-cent amounts only
WholeCents(S) == {x \in S : x % 10 = 0}

NextCents ==
    \/ LoanNew(WholeCents(Principals))
    \/ GenerateSchedule
    \/ AdjustRates
    \/ EarlyPayments(WholeCents(FixedExtras), {})

SpecCents == Init /\ [][NextCents]_vars

\* ------------------------------------------------------------ main's run
\* the Loan main builds: 536714.20 at 4.2 %, 57 of 288 periods done, 2024-10-19
MainLoan == new(536714200, 420, 57, 288, [y |-> 2024, m |-> 10, d |-> 19])

IsMain == loan # None /\ loan.done_months = MainLoan.done_months
                      /\ loan.months = MainLoan.months

MainLoanNew ==
    /\ pc = "start"
    /\ pc' = "constructed"
    /\ loan' = MainLoan
    /\ last' = [op |-> "new", outcome |-> "ok",
                done_months |-> MainLoan.done_months, months |-> MainLoan.months]
    /\ UNCHANGED <<schedule, calls>>

\* adjust_rate(3.9, 2) and adjust_rate(3.55, 3), in either order
MainAdjustRates ==
    /\ IsMain
    /\ \E call \in {<<390, 2>>, <<355, 3>>} : AdjustRate(call[1], call[2])

\* (monthly_principal_payment * 43).round_dp(2) at period 58, and
\* (10000 / monthly_principal_payment).trunc() * monthly_principal_payment at
\* the periods 59 + period of the loop that are multiples of 3; main makes the
\* first shorten-term on both loans and the second under both strategies
MainEarlyPayments ==
    /\ IsMain
    /\ pc = "generated"
    /\ loan.monthly_principal_payment > 0
    /\ \/ \E shorten_term \in BOOLEAN :
             MakeEarlyPayment(round_dp(loan.monthly_principal_payment * 43),
                              58, shorten_term)
       \/ \E period \in 0..MaxPeriods, shorten_term \in BOOLEAN :
             /\ (59 + period) % 3 = 0
             /\ MakeEarlyPayment(
                    (10000000 \div loan.monthly_principal_payment)
                        * loan.monthly_principal_payment,
                    59 + period, shorten_term)

\* main's loan next to the whole-cent loans of the general driver
NextMain ==
    \/ MainLoanNew
    \/ LoanNew(WholeCents(Principals))
    \/ GenerateSchedule
    \/ MainAdjustRates
    \/ MainEarlyPayments
    \/ (~IsMain /\ AdjustRates)
    \/ (~IsMain /\ EarlyPayments(WholeCents(FixedExtras), {}))

SpecMain == Init /\ [][NextMain]_vars

\* ================================================================ claims
\* helpers of the properties below
RECURSIVE sum_principal_payment(_, _)
sum_principal_payment(sched, i) ==
    IF i > Len(sched) THEN 0
    ELSE sched[i].principal_payment + sum_principal_payment(sched, i + 1)

Abs(x) == IF x < 0 THEN 0 - x ELSE x

\* the last record's principal_payment exhausts its balance
PaidOff(sched) ==
    /\ Len(sched) > 0
    /\ sched[Len(sched)].remaining_principal - sched[Len(sched)].principal_payment = 0

JustGenerated == last.op = "generate_schedule" /\ last.outcome = "ok"

\* C1: the schedule generate_schedule returns has principal payments that sum
\* to the principal within one cent per period, and its last record pays the
\* balance off (remaining_principal - principal_payment = 0).
C1_GeneratedSchedulePaysOff ==
    JustGenerated =>
        /\ Abs(sum_principal_payment(schedule, 1) - loan.principal)
               <= 10 * Len(schedule)
        /\ PaidOff(schedule)

\* C2: in every record remaining_principal >= 0 and principal_payment >= 0,
\* and remaining_principal never rises from one record to the next, after
\* generation and any adjust_rate / make_early_payment calls.
C2_BalanceNonNegativeNonIncreasing ==
    /\ \A i \in 1..Len(schedule) :
          /\ schedule[i].remaining_principal >= 0
          /\ schedule[i].principal_payment >= 0
    /\ \A i \in 1..(Len(schedule) - 1) :
          schedule[i + 1].remaining_principal <= schedule[i].remaining_principal

\* the early payment a record shows, 0 when it shows none
early_of(rec) == IF rec.early_payment = None THEN 0 ELSE rec.early_payment[1]

\* C3: with whole-cent amounts, every two consecutive records satisfy
\* remaining_principal[i+1] = remaining_principal[i] - principal_payment[i]
\* - early_payment[i+1] (0 when absent).
C3_BalanceChain ==
    \A i \in 1..(Len(schedule) - 1) :
        schedule[i + 1].remaining_principal =
            schedule[i].remaining_principal - schedule[i].principal_payment
                - early_of(schedule[i + 1])

\* the call a step makes is the one `last` holds after it
IsEarlyPayment(call) == call.op = "make_early_payment"

\* the call's period resolves to a record of the schedule
InRange(call) ==
    /\ call.period > loan.done_months
    /\ call.period <= loan.done_months + Len(schedule)

\* the balance the call leaves at its target record
BalanceLeft(call) ==
    round_dp(schedule[call.period - loan.done_months].remaining_principal
             - call.extra_payment)

\* the call passes the range check and the balance check
Accepted(call) == IsEarlyPayment(call) /\ InRange(call) /\ BalanceLeft(call) >= 0

\* C4: an accepted make_early_payment on a schedule whose last record pays
\* the balance off leaves a schedule whose last record pays the balance off.
C4_PaidOffPreserved ==
    [][ (Accepted(last') /\ PaidOff(schedule)) => PaidOff(schedule') ]_vars

\* C5: an accepted reduce-installment payment keeps the schedule length and,
\* when extra_payment > 0, does not raise the Loan's flat installment.
C5_ReduceKeepsLengthLowersInstallment ==
    [][ (Accepted(last') /\ ~last'.shorten_term) =>
            /\ Len(schedule') = Len(schedule)
            /\ (last'.extra_payment > 0 =>
                   loan'.monthly_principal_payment <= loan.monthly_principal_payment)
      ]_vars

\* C6: make_early_payment with shorten_term = true never lengthens the
\* schedule, never leaves a record with a negative remaining_principal and
\* leaves the Loan's flat installment unchanged.
C6_ShortenTerm ==
    [][ (IsEarlyPayment(last') /\ last'.shorten_term) =>
            /\ Len(schedule') <= Len(schedule)
            /\ \A i \in 1..Len(schedule') : schedule'[i].remaining_principal >= 0
            /\ loan'.monthly_principal_payment = loan.monthly_principal_payment
      ]_vars

\* a shorten-term payment has truncated the schedule
C6_Witness ==
    /\ IsEarlyPayment(last) /\ last.shorten_term /\ last.outcome = "accepted"
    /\ last.extra_payment > 0
    /\ Len(schedule) < loan.months - loan.done_months
    /\ schedule[last.period - loan.done_months].early_payment = Some(last.extra_payment)

IsAdjustRate(call) == call.op = "adjust_rate"

\* the fields adjust_rate is not meant to write
SameButRate(a, b) ==
    /\ a.principal_payment = b.principal_payment
    /\ a.remaining_principal = b.remaining_principal
    /\ a.period = b.period
    /\ a.payment_date = b.payment_date
    /\ a.early_payment = b.early_payment

\* C7: adjust_rate(new_rate, k) keeps the schedule length, leaves every record
\* at 1-indexed position < k unchanged in every field and, at positions >= k,
\* changes nothing but interest_rate, interest and total_payment.
C7_AdjustRateFrame ==
    [][ IsAdjustRate(last') =>
            /\ Len(schedule') = Len(schedule)
            /\ \A i \in 1..Len(schedule) :
                  /\ i < last'.from_period => schedule'[i] = schedule[i]
                  /\ SameButRate(schedule'[i], schedule[i])
      ]_vars

\* adjust_rate from position 2 has given the records from 2 on another rate
\* than record 1, and another interest than they had under record 1's rate
C7_Witness ==
    /\ IsAdjustRate(last) /\ last.outcome = "ok" /\ last.from_period = 2
    /\ Len(schedule) >= 2
    /\ schedule[2].interest_rate = last.new_rate
    /\ schedule[1].interest_rate # last.new_rate
    /\ schedule[2].interest # interest_of(schedule[2].remaining_principal,
                                          schedule[1].interest_rate)

\* C8: make_early_payment whose period resolves outside the schedule, on
\* either side, returns normally and leaves the schedule and the Loan unchanged.
C8_OutOfRangeIsNoOp ==
    [][ (IsEarlyPayment(last') /\ ~InRange(last')) =>
            /\ pc' # "panicked"
            /\ schedule' = schedule
            /\ loan' = loan
      ]_vars

\* C9: make_early_payment at a period of the schedule whose
\* round2(remaining_principal - extra_payment) is negative changes no record,
\* not the schedule length and not the Loan.
C9_OverBalanceIsNoOp ==
    [][ (IsEarlyPayment(last') /\ InRange(last') /\ BalanceLeft(last') < 0) =>
            /\ schedule' = schedule
            /\ loan' = loan
      ]_vars

\* a payment one cent above the target record's balance was turned away,
\* under a record whose balance an earlier call had already lowered
C9_Witness ==
    /\ IsEarlyPayment(last) /\ InRange(last)
    /\ last.extra_payment =
           schedule[last.period - loan.done_months].remaining_principal + 10
    /\ schedule[last.period - loan.done_months].early_payment # Some(last.extra_payment)
    /\ \E i \in 1..Len(schedule) : schedule[i].early_payment # None
    /\ pc = "generated"

\* C10: adjust_rate completes for every from_period, 0 included, and leaves
\* every record unchanged when from_period exceeds the schedule length.
C10_AdjustRateNeverFails ==
    [][ IsAdjustRate(last') =>
            /\ pc' # "panicked"
            /\ (last'.from_period > Len(schedule) => schedule' = schedule)
      ]_vars

\* C11: in every record total_payment = round2(principal_payment + interest),
\* the final, capped record included.
C11_TotalIsPrincipalPlusInterest ==
    \A i \in 1..Len(schedule) :
        schedule[i].total_payment =
            round_dp(schedule[i].principal_payment + schedule[i].interest)

\* C12: Loan::new with months = done_months does not divide by zero: it ends
\* in a reported error rather than a panic, and no schedule comes of it.
C12_ZeroTermIsDomainError ==
    (last.op = "new" /\ last.months = last.done_months) =>
        /\ pc # "panicked"
        /\ last.outcome = "error"
        /\ schedule = << >>

\* C13: main's loan yields 231 records, the first with period 58 and
\* remaining_principal 536714.20, the last paying the balance off; and every
\* generated schedule has months - done_months records, the first of which
\* holds the principal.
C13_GeneratedLengthAndFirstRecord ==
    JustGenerated =>
        /\ Len(schedule) = loan.months - loan.done_months
        /\ schedule[1].remaining_principal = loan.principal
        /\ (loan = MainLoan =>
               /\ Len(schedule) = 231
               /\ schedule[1].period = 58
               /\ schedule[1].remaining_principal = 536714200
               /\ schedule[231].remaining_principal
                      - schedule[231].principal_payment = 0)

\* main's schedule, just generated
C13_Witness ==
    /\ JustGenerated
    /\ loan = MainLoan
    /\ Len(schedule) = 231
    /\ schedule[231].period = 288

\* the 1-based position of the record a call's period names
Target(call) == call.period - loan.done_months

\* record i of sched pays its balance down to exactly zero
ReachesZero(sched, i) ==
    sched[i].remaining_principal - sched[i].principal_payment = 0

\* C14: a shorten-term payment of the target record's whole remaining_principal
\* leaves the target record last, with nothing left to pay; and any accepted
\* shorten-term payment keeps, from the target on, exactly the records up to
\* the first one that brings the balance to zero.
C14_ShortenTruncatesAtZero ==
    [][ (Accepted(last') /\ last'.shorten_term) =>
            /\ (last'.extra_payment = schedule[Target(last')].remaining_principal =>
                   /\ Len(schedule') = Target(last')
                   /\ ReachesZero(schedule', Len(schedule')))
            /\ Len(schedule') >= Target(last')
            /\ \A j \in Target(last')..(Len(schedule') - 1) :
                   ~ReachesZero(schedule', j)
            /\ (Len(schedule') < Len(schedule) =>
                   ReachesZero(schedule', Len(schedule')))
      ]_vars

\* the whole balance of a record that was not the last one was paid off
\* shorten-term, and the schedule now ends at that record
C14_Witness ==
    /\ IsEarlyPayment(last) /\ last.shorten_term /\ last.outcome = "accepted"
    /\ last.extra_payment > 0
    /\ Len(schedule) = last.period - loan.done_months
    /\ Len(schedule) < loan.months - loan.done_months
    /\ schedule[Len(schedule)].early_payment = Some(last.extra_payment)
    /\ schedule[Len(schedule)].remaining_principal = 0
    /\ schedule[Len(schedule)].principal_payment = 0

Min(a, b) == IF a < b THEN a ELSE b

\* C15: after an accepted shorten-term payment every surviving record from
\* the target on pays min(its balance, the Loan's flat installment).
C15_ShortenCapsAtFlatInstallment ==
    [][ (Accepted(last') /\ last'.shorten_term) =>
            \A j \in Target(last')..Len(schedule') :
                schedule'[j].principal_payment =
                    Min(schedule'[j].remaining_principal,
                        loan'.monthly_principal_payment)
      ]_vars

\* record i (1-based) has period done_months + i, and the schedule is no
\* longer than the contractual term
PeriodsInOrder ==
    pc = "generated" =>
        /\ Len(schedule) <= loan.months - loan.done_months
        /\ \A i \in 1..Len(schedule) : schedule[i].period = loan.done_months + i

\* what a make_early_payment step may do to the schedule: nothing before the
\* target record, nothing at all when there is no target, no record added,
\* and period, payment_date and interest_rate kept everywhere
EarlyPaymentFrame ==
    LET first == IF InRange(last') THEN Target(last') ELSE Len(schedule) + 1
    IN  /\ Len(schedule') <= Len(schedule)
        /\ first > Len(schedule) => schedule' = schedule
        /\ \A i \in 1..Len(schedule') :
              /\ i < first => schedule'[i] = schedule[i]
              /\ schedule'[i].period = schedule[i].period
              /\ schedule'[i].payment_date = schedule[i].payment_date
              /\ schedule'[i].interest_rate = schedule[i].interest_rate

\* C16: periods stay consecutive from done_months + 1 and the length within
\* months - done_months; make_early_payment leaves the records before its
\* target unchanged and never changes a period, payment_date or interest_rate.
C16_PeriodsAndEarlyPaymentFrame ==
    /\ []PeriodsInOrder
    /\ [][ IsEarlyPayment(last') => EarlyPaymentFrame ]_vars

\* an accepted payment at the second record or later, on a schedule whose
\* records carry different rates
C16_Witness ==
    /\ IsEarlyPayment(last) /\ last.outcome = "accepted"
    /\ last.extra_payment > 0
    /\ last.period - loan.done_months >= 2
    /\ Len(schedule) >= last.period - loan.done_months
    /\ schedule[last.period - loan.done_months].early_payment = Some(last.extra_payment)
    /\ schedule[1].interest_rate # schedule[Len(schedule)].interest_rate
    /\ schedule[1].early_payment = None

\* C17: every record's interest is round2(remaining_principal * (interest_rate
\* / 12 / 100)) of the remaining_principal and interest_rate it now holds.
C17_InterestIsCurrent ==
    \A i \in 1..Len(schedule) :
        schedule[i].interest =
            interest_of(schedule[i].remaining_principal, schedule[i].interest_rate)

\* a rate change from record 2 on followed by an accepted early payment that
\* lowered the balance of a record charged a non-zero interest
C17_Witness ==
    /\ calls = 2
    /\ IsEarlyPayment(last) /\ last.outcome = "accepted"
    /\ last.extra_payment >= 100000
    /\ Len(schedule) >= 2
    /\ schedule[1].interest_rate # schedule[2].interest_rate
    /\ schedule[last.period - loan.done_months].interest > 0

\* an adjust_rate call that returned
AdjustRateReturned(call) == IsAdjustRate(call) /\ call.outcome = "ok"

\* adjust_rate(3.9, 2) followed by adjust_rate(3.55, 3) on main's loan: only
\* the first of the two calls writes the rate 3.9, into record[1]
MainRatesAdjusted ==
    /\ IsMain /\ calls = 2
    /\ AdjustRateReturned(last) /\ last.new_rate = 355 /\ last.from_period = 3
    /\ schedule[2].interest_rate = 390

\* C18: a freshly generated schedule carries the Loan's annual_rate in every
\* record; each adjust_rate(new_rate, k) that returns sets the rate of every
\* record at 1-indexed position >= k to new_rate, keeps the rate of the others
\* and sets the Loan's annual_rate to new_rate (so a record's rate is that of
\* the most recent call with from_period <= its position); after
\* adjust_rate(3.9, 2) and adjust_rate(3.55, 3) record[0] is at 4.2, record[1]
\* at 3.9 and every later record at 3.55.
C18_AdjustRateSequence ==
    /\ [](JustGenerated =>
            \A i \in 1..Len(schedule) : schedule[i].interest_rate = loan.annual_rate)
    /\ [][ AdjustRateReturned(last') =>
            /\ loan'.annual_rate = last'.new_rate
            /\ \A i \in 1..Len(schedule') :
                  schedule'[i].interest_rate =
                      IF last'.from_period <= i THEN last'.new_rate
                      ELSE schedule[i].interest_rate ]_vars
    /\ [](MainRatesAdjusted =>
            /\ schedule[1].interest_rate = 420
            /\ \A i \in 3..Len(schedule) : schedule[i].interest_rate = 355
            /\ loan.annual_rate = 355)

\* the calendar: the date k months after date with the same day-of-month, and
\* whether a year, month and day name a date that exists
AddMonths(date, k) ==
    LET total == (date.m - 1) + k
    IN  [y |-> date.y + (total \div 12), m |-> (total % 12) + 1, d |-> date.d]
ValidDate(date) == date.d \in 1..DaysInMonth(date.y, date.m)

\* C19: generate_schedule returns no schedule exactly when one of the
\* months - done_months one-month advances it makes (the one after the last
\* record included) lands on a date that does not exist; when it returns,
\* record i (0-based) is dated start_date plus i calendar months, same
\* day-of-month, the year carried at every December-to-January step.
C19_PaymentDates ==
    last.op = "generate_schedule" =>
        LET count == loan.months - loan.done_months
            impossible == \E k \in 1..count :
                              ~ValidDate(AddMonths(loan.start_date, k))
        IN  /\ (last.outcome = "panic") <=> impossible
            /\ (last.outcome = "ok") <=> ~impossible
            /\ last.outcome = "ok" =>
                  \A i \in 1..Len(schedule) :
                      /\ schedule[i].payment_date = AddMonths(loan.start_date, i - 1)
                      /\ schedule[i].payment_date.d = loan.start_date.d
                      /\ ValidDate(schedule[i].payment_date)

\* main's schedule, 2024-10-19 onward: the fourth record is the first of 2025
C19_Witness ==
    /\ IsMain /\ JustGenerated
    /\ Len(schedule) = 231
    /\ schedule[3].payment_date = [y |-> 2024, m |-> 12, d |-> 19]
    /\ schedule[4].payment_date = [y |-> 2025, m |-> 1, d |-> 19]
    /\ schedule[231].payment_date = [y |-> 2043, m |-> 12, d |-> 19]

\* no early payment has been accepted on sched: it is as generate_schedule and
\* adjust_rate left it
NoEarlyPaymentYet(sched) ==
    \A i \in 1..Len(sched) : sched[i].early_payment = None

\* C20: on a schedule that generate_schedule produced and only adjust_rate has
\* touched, an accepted make_early_payment with extra_payment > 0, under either
\* strategy, never increases total_interest_paid.
C20_EarlyPaymentNeverRaisesInterest ==
    [][ (Accepted(last') /\ last'.extra_payment > 0 /\ NoEarlyPaymentYet(schedule)) =>
            total_interest_paid(schedule') <= total_interest_paid(schedule) ]_vars

====
